---- MODULE Spec2Model ----
(***************************************************************************)
(* Model of streamlit_app.py (GCapricorn dashboard).                       *)
(*                                                                         *)
(* Text is modelled as a sequence of symbols.  A symbol is a one-character *)
(* TLA+ string standing for one character or one unbroken run of letters   *)
(* of the Python string:                                                   *)
(*   " "  a blank            ","  a comma            "-"  a hyphen         *)
(*   "E"  Enzymes            "T"  Transporters       "X"  any other class  *)
(*   "P"  the text "Pathology prognostics" inside a column name            *)
(*   "L" "B" "N" "S"  words of a cancer-type name, "G" any other column    *)
(*   "f"  favorable          "F"  Favorable (upper case)                   *)
(*   "u"  the prefix "un"    "U"  the prefix "Un",  so that                *)
(*   <<"u","f">> is "unfavorable" and contains "favorable" as a substring  *)
(*   "p"  any other lower-case word of a cell ("prognostic", "(1e-4)")     *)
(*   "n","a" the letters of str(float("nan")) = "nan"                      *)
(* split, strip, lower, join and the membership tests are computed on      *)
(* these sequences the way Python computes them on characters.             *)
(***************************************************************************)
EXTENDS Integers, Sequences, FiniteSets, TLC

VARIABLES
    (* harness of prioritize_protein_class *)
    protein_classes, priority_list, class_ret,
    (* harness of generate_prognostic_data *)
    row, prognostic_type, prog_ret,
    (* the process: st.cache_data's store, st.session_state, main's position *)
    (* and locals                                                            *)
    cache, session_state, pc, data, err, view_log,
    (* observation: what read_csv gave in the current run, the fetches     *)
    (* made so far, the fetches and session-state writes of the current    *)
    (* run, the outcome of the first and of the latest load_data call      *)
    source, fetches, run_fetches, run_published, first_ret, last_ret

class_vars == <<protein_classes, priority_list, class_ret>>
prog_vars == <<row, prognostic_type, prog_ret>>
main_vars == <<cache, session_state, pc, data, err, view_log,
               source, fetches, run_fetches, run_published, first_ret, last_ret>>
vars == <<class_vars, prog_vars, main_vars>>

(* ------------------------------ bounds -------------------------------- *)
MaxLen == 4
MaxCols == 3
MaxRows == 2
MaxFetches == 2

(* --------------------------- Python values ---------------------------- *)
(* A cell of the table: a str, or the float NaN pandas gives a missing cell *)
Str(s) == [nan |-> FALSE, s |-> s]
NaN == [nan |-> TRUE, s |-> <<>>]
(* An optional argument *)
None == [none |-> TRUE, v |-> <<>>]
Some(v) == [none |-> FALSE, v |-> v]
(* The outcome of a call: a returned value or a raised exception *)
Return(v) == [ok |-> TRUE, val |-> v, err |-> ""]
Raise(e) == [ok |-> FALSE, val |-> <<>>, err |-> e]
NotCalled == [ok |-> FALSE, val |-> <<>>, err |-> "not called"]

Range(s) == {s[i] : i \in DOMAIN s}
StrUpTo(A, n) == UNION {[1..k -> A] : k \in 0..n}

(* ------------------------- Python str methods ------------------------- *)
Whitespace == {" "}

RECURSIVE LStrip(_)
LStrip(s) ==
    IF s # <<>> /\ Head(s) \in Whitespace THEN LStrip(Tail(s)) ELSE s

RECURSIVE RStrip(_)
RStrip(s) ==
    IF s # <<>> /\ s[Len(s)] \in Whitespace
    THEN RStrip(SubSeq(s, 1, Len(s) - 1)) ELSE s

StripIdentity(s) == s
(* str.strip() *)
Strip(s) == RStrip(LStrip(s))

(* str.split(sep) for a one-character sep: every occurrence cuts, empty   *)
(* segments are kept, so the result has (number of sep) + 1 elements      *)
RECURSIVE Split(_, _)
Split(s, sep) ==
    IF \A i \in DOMAIN s : s[i] # sep
    THEN <<s>>
    ELSE LET i == CHOOSE k \in DOMAIN s :
                      s[k] = sep /\ \A j \in 1..(k - 1) : s[j] # sep
         IN  <<SubSeq(s, 1, i - 1)>> \o Split(SubSeq(s, i + 1, Len(s)), sep)

(* str.split() without argument: cut at runs of whitespace, no empty token *)
RECURSIVE SplitWhitespace(_)
SplitWhitespace(s) ==
    LET t == LStrip(s)
    IN  IF t = <<>>
        THEN <<>>
        ELSE IF \A i \in DOMAIN t : t[i] \notin Whitespace
        THEN <<t>>
        ELSE LET i == CHOOSE k \in DOMAIN t :
                          t[k] \in Whitespace
                          /\ \A j \in 1..(k - 1) : t[j] \notin Whitespace
             IN  <<SubSeq(t, 1, i - 1)>>
                     \o SplitWhitespace(SubSeq(t, i + 1, Len(t)))

LowerChar(c) ==
    CASE c = "F" -> "f"
      [] c = "U" -> "u"
      [] OTHER -> c

(* str.lower() *)
Lower(s) == [i \in DOMAIN s |-> LowerChar(s[i])]

(* sep.join(parts) *)
RECURSIVE Join(_, _)
Join(parts, sep) ==
    IF parts = <<>> THEN <<>>
    ELSE IF Len(parts) = 1 THEN parts[1]
    ELSE parts[1] \o <<sep>> \o Join(Tail(parts), sep)

(* str(x) of a cell: the text itself, "nan" for the float NaN *)
PyStr(x) == IF x.nan THEN <<"n", "a", "n">> ELSE x.s

(* sub in s, for a one-symbol sub *)
Contains(s, c) == c \in Range(s)

(* ---------------------- prioritize_protein_class ---------------------- *)
protein_class_priority == << <<"E">>, <<"T">> >>

(* a plausible slip: the result follows the input's order *)
prioritize_by_input_order(classes, priority) ==
    IF classes.nan
    THEN Raise("AttributeError")
    ELSE LET pl == IF priority.none THEN protein_class_priority ELSE priority.v
             parts == Split(classes.s, ",")
             class_list == [i \in DOMAIN parts |-> Strip(parts[i])]
             prioritized == SelectSeq(class_list, LAMBDA x : x \in Range(pl))
         IN  IF prioritized # <<>> THEN Return(prioritized)
             ELSE Return(class_list)

prioritize_protein_class(classes, priority) ==
    IF classes.nan
    THEN Raise("AttributeError")   (* float has no attribute split *)
    ELSE LET pl == IF priority.none THEN protein_class_priority ELSE priority.v
             parts == Split(classes.s, ",")
             class_list == [i \in DOMAIN parts |-> Strip(parts[i])]
             prioritized == SelectSeq(pl, LAMBDA x : x \in Range(class_list))
         IN  IF prioritized # <<>> THEN Return(prioritized)
             ELSE Return(class_list)

ClassAlphabet == {"E", "T", "X", " ", ","}
PriorityLists ==
    { None,
      Some(<< <<"T">>, <<"E">> >>),
      Some(<< <<"X">>, <<"E", "T">>, <<"E">> >>),
      Some(<< <<"E", " ", "T">>, <<"T">>, <<"E", " ", "T">> >>),
      Some(<<>>) }

Unset == [unfiltered_data |-> None, data |-> None,
          protein_selection |-> None, cancer_selection |-> None]

MainIdle ==
    /\ cache = None
    /\ session_state = Unset
    /\ pc = "idle"
    /\ data = <<>>
    /\ err = ""
    /\ view_log = <<>>
    /\ source = None
    /\ fetches = 0
    /\ run_fetches = 0
    /\ run_published = {}
    /\ first_ret = NotCalled
    /\ last_ret = NotCalled

ProgIdle ==
    /\ row = <<>>
    /\ prognostic_type = <<>>
    /\ prog_ret = NotCalled

ClassIdle ==
    /\ protein_classes = Str(<<>>)
    /\ priority_list = None
    /\ class_ret = NotCalled

InitClass ==
    /\ protein_classes \in {Str(s) : s \in StrUpTo(ClassAlphabet, MaxLen)}
    /\ priority_list \in PriorityLists
    /\ class_ret = NotCalled
    /\ ProgIdle
    /\ MainIdle

CallPrioritize ==
    /\ class_ret = NotCalled
    /\ class_ret' = prioritize_protein_class(protein_classes, priority_list)
    /\ UNCHANGED <<protein_classes, priority_list, prog_vars, main_vars>>

NextClass == CallPrioritize

SpecClass == InitClass /\ [][NextClass]_vars

(* ------------------- claims on prioritize_protein_class --------------- *)
ClassCalled == class_ret # NotCalled
EffectivePriority ==
    IF priority_list.none THEN protein_class_priority ELSE priority_list.v

(* The comma-separated segments of the input, by the commas' positions *)
CommaCuts(s) == {0, Len(s) + 1} \cup {i \in DOMAIN s : s[i] = ","}
SegmentCount(s) == Cardinality(CommaCuts(s)) - 1
SegmentAt(s, k) ==
    LET cuts == CommaCuts(s)
        lo == CHOOSE c \in cuts : Cardinality({d \in cuts : d < c}) = k - 1
        hi == CHOOSE c \in cuts : Cardinality({d \in cuts : d < c}) = k
    IN  SubSeq(s, lo + 1, hi - 1)
(* l is seg without its leading and trailing blanks *)
IsTrimOf(l, seg) ==
    /\ l = <<>> \/ (l[1] # " " /\ l[Len(l)] # " ")
    /\ \E i \in 0..Len(seg) :
          /\ i + Len(l) <= Len(seg)
          /\ \A j \in 1..i : seg[j] = " "
          /\ \A j \in 1..Len(l) : seg[i + j] = l[j]
          /\ \A j \in (i + Len(l) + 1)..Len(seg) : seg[j] = " "
(* label l is one of the input's trimmed labels *)
Present(l) ==
    \E k \in 1..SegmentCount(protein_classes.s) :
        IsTrimOf(l, SegmentAt(protein_classes.s, k))
Intersects == \E i \in DOMAIN EffectivePriority : Present(EffectivePriority[i])

Orderings(n) == {f \in [1..n -> 1..n] : \A i, j \in 1..n : i # j => f[i] # f[j]}
Reordered(s, f) ==
    Join([i \in 1..SegmentCount(s) |-> SegmentAt(s, f[i])], ",")

AllBlank(s) == \A i \in DOMAIN s : s[i] = " "

C2_BlankWitness ==
    /\ ClassCalled
    /\ protein_classes.s # <<>> /\ AllBlank(protein_classes.s)
    /\ class_ret.val = << <<>> >>

(* ----------------------- generate_prognostic_data --------------------- *)
(* A row (pd.Series) is a sequence of fields [name, value], in column      *)
(* order; read_csv keeps the column names of a table distinct.             *)
Field(name, value) == [name |-> name, value |-> value]
IndexOf(series) == [i \in DOMAIN series |-> series[i].name]

(* series[mask]: the fields at the positions where mask holds *)
RECURSIVE MaskSelect(_, _)
MaskSelect(series, mask) ==
    IF series = <<>> THEN <<>>
    ELSE (IF mask[1] THEN <<series[1]>> ELSE <<>>)
             \o MaskSelect(Tail(series), Tail(mask))

(* series[labels]: for each label in turn, the fields carrying it *)
RECURSIVE LabelSelect(_, _)
LabelSelect(series, labels) ==
    IF labels = <<>> THEN <<>>
    ELSE SelectSeq(series, LAMBDA fld : fld.name = labels[1])
             \o LabelSelect(series, Tail(labels))

(* x.split("-")[1].strip(); IndexError when x holds no "-" *)
cancer_type_of(x) ==
    LET parts == Split(x, "-")
    IN  IF Len(parts) < 2 THEN Raise("IndexError")
        ELSE Return(Strip(parts[2]))

(* a slip: the polarity is looked for in the text, not among its tokens *)
token_match_substring(x, ptype) ==
    LET text == Lower(PyStr(x))
    IN  \E i \in 1..(Len(text) - Len(ptype) + 1) :
            SubSeq(text, i, i + Len(ptype) - 1) = ptype

(* prognostic_type in str(x).lower().split() *)
token_match(x, ptype) == ptype \in Range(SplitWhitespace(Lower(PyStr(x))))

generate_prognostic_data(r, ptype) ==
    LET prognostic_fields ==
            MaskSelect(r, [i \in DOMAIN r |-> Contains(r[i].name, "P")])
        prognostics_row == LabelSelect(r, IndexOf(prognostic_fields))
        prognostics ==
            IndexOf(MaskSelect(prognostics_row,
                [i \in DOMAIN prognostics_row |->
                    token_match(prognostics_row[i].value, ptype)]))
        types == [i \in DOMAIN prognostics |-> cancer_type_of(prognostics[i])]
    IN  IF \E i \in DOMAIN types : ~types[i].ok
        THEN Raise("IndexError")
        ELSE Return(Join([i \in DOMAIN types |-> types[i].val], ","))

favorable == <<"f">>
unfavorable == <<"u", "f">>

ColLiver == <<"P", " ", "-", " ", "L">>
ColBreast == <<"P", " ", "-", " ", "B">>
ColNoHyphen == <<"P">>
ColTwoHyphens == <<"P", " ", "-", " ", "N", "-", "S">>
ColGene == <<"G">>
ColOther == <<"G", "-", "L">>
ColumnNames ==
    {ColLiver, ColBreast, ColNoHyphen, ColTwoHyphens, ColGene, ColOther}

CellValues ==
    { NaN,
      Str(<<"f">>),
      Str(<<"u", "f">>),
      Str(<<"F">>),
      Str(<<"p", " ", "U", "f", " ", "p">>),
      Str(<<"f", " ", " ", "u", "f">>),
      Str(<<"p", "f">>) }

Distinct(s) == \A i, j \in DOMAIN s : i # j => s[i] # s[j]
Headers(n) == {h \in StrUpTo(ColumnNames, n) : Distinct(h)}

InitProg ==
    /\ \E h \in Headers(MaxCols) : \E c \in [DOMAIN h -> CellValues] :
          row = [i \in DOMAIN h |-> Field(h[i], c[i])]
    /\ prognostic_type \in {favorable, unfavorable}
    /\ prog_ret = NotCalled
    /\ ClassIdle
    /\ MainIdle

CallPrognostic ==
    /\ prog_ret = NotCalled
    /\ prog_ret' = generate_prognostic_data(row, prognostic_type)
    /\ UNCHANGED <<row, prognostic_type, class_vars, main_vars>>

NextProg == CallPrognostic

SpecProg == InitProg /\ [][NextProg]_vars

(* ------------------- claims on generate_prognostic_data --------------- *)
ProgCalled == prog_ret # NotCalled
IsPathology(name) == \E i \in DOMAIN name : name[i] = "P"
Hyphens(name) == {i \in DOMAIN name : name[i] = "-"}
FirstHyphen(name) == CHOOSE i \in Hyphens(name) : \A j \in Hyphens(name) : i <= j
(* the whole remainder after the first "-", without surrounding blanks *)
RemainderType(name) ==
    LET rest == SubSeq(name, FirstHyphen(name) + 1, Len(name))
    IN  CHOOSE l \in {SubSeq(rest, a, b) : a \in 1..(Len(rest) + 1), b \in 0..Len(rest)} :
            IsTrimOf(l, rest)
(* the cell is text that holds word w between blanks or the text's ends,   *)
(* upper or lower case                                                     *)
HasToken(cell, w) ==
    /\ ~cell.nan
    /\ \E i \in 1..Len(cell.s) :
          /\ i + Len(w) - 1 <= Len(cell.s)
          /\ \A j \in 1..Len(w) : LowerChar(cell.s[i + j - 1]) = w[j]
          /\ i = 1 \/ cell.s[i - 1] = " "
          /\ i + Len(w) - 1 = Len(cell.s) \/ cell.s[i + Len(w)] = " "
(* the positions of the row's pathology columns whose cell names ptype *)
Matching(r, ptype) ==
    {i \in DOMAIN r : /\ IsPathology(r[i].name)
                      /\ Hyphens(r[i].name) # {}
                      /\ HasToken(r[i].value, ptype)}
KthOf(S, k) == CHOOSE i \in S : Cardinality({j \in S : j < i}) = k - 1
(* the cancer types of the matching columns, in column order *)
ExpectedTypes(r, ptype) ==
    [k \in 1..Cardinality(Matching(r, ptype)) |->
        RemainderType(r[KthOf(Matching(r, ptype), k)].name)]
WellFormed(r) ==
    \A i \in DOMAIN r : IsPathology(r[i].name) => Cardinality(Hyphens(r[i].name)) = 1

(* C3: for every row and polarity the summary lists exactly the cancer     *)
(* types of the pathology columns whose cell, lower-cased and split on     *)
(* blanks, holds the polarity word as a whole token (NaN never matches),   *)
(* in column order, joined by commas.                                      *)
C3_SummaryAsClaimed ==
    ProgCalled =>
        /\ prog_ret.ok
        /\ prog_ret.val = Join(ExpectedTypes(row, prognostic_type), ",")

(* C4: no column name makes generate_prognostic_data raise: a pathology    *)
(* column without "-" is left out whatever its cell holds.                 *)
C4_NeverRaises ==
    ProgCalled => prog_ret.ok

(* C5: every name placed in the summary is the whole remainder of the      *)
(* column name after its first "-", trimmed, also when the column name     *)
(* holds more than one "-".                                                *)
C5_RemainderAfterFirstHyphen ==
    (ProgCalled /\ prog_ret.ok) =>
        prog_ret.val = Join(ExpectedTypes(row, prognostic_type), ",")

(* C3 on the rows whose pathology columns all hold exactly one "-": there  *)
(* the summary is as C3 states it.                                         *)
SummaryOnWellFormedColumns ==
    (ProgCalled /\ WellFormed(row)) =>
        /\ prog_ret.ok
        /\ prog_ret.val = Join(ExpectedTypes(row, prognostic_type), ",")

(* ------------------------------ load_data ----------------------------- *)
(* A DataFrame is its column names and its rows of values, in order.       *)
(* Column-name symbols: "I" Uniprot, "C" Protein class, "g" prognostics,   *)
(* "R" Prioritized Protein Class; "Q" is an accession.                     *)
UniprotCol == <<"I">>
ProteinClassCol == <<"C">>
FavorableCol == <<"F", " ", "g">>
UnfavorableCol == <<"U", "f", " ", "g">>
PrioritizedCol == <<"R">>

DataFrame(columns, rows) == [columns |-> columns, rows |-> rows]
(* the row handed to the function by data.apply(..., axis=1) *)
SeriesOf(df, i) == [j \in DOMAIN df.columns |-> Field(df.columns[j], df.rows[i][j])]
Get(r, name) == r[CHOOSE j \in DOMAIN r : r[j].name = name].value
(* a str or a list held in a cell *)
PyList(l) == [nan |-> FALSE, s |-> l]

FirstError(rets) ==
    rets[CHOOSE i \in DOMAIN rets :
            ~rets[i].ok /\ \A j \in 1..(i - 1) : rets[j].ok].err

(* data[name] = values *)
SetColumn(df, name, values) ==
    DataFrame(Append(df.columns, name),
              [i \in DOMAIN df.rows |-> Append(df.rows[i], values[i])])

(* data.dropna(subset=[name], inplace=True) *)
DropNa(df, name) ==
    LET at == CHOOSE j \in DOMAIN df.columns : df.columns[j] = name
    IN  DataFrame(df.columns, SelectSeq(df.rows, LAMBDA r : ~r[at].nan))

(* data[name] = data.apply(...): the calls' values as a new column; the   *)
(* first exception of a call propagates                                    *)
Assign(df, name, rets) ==
    IF \E i \in DOMAIN rets : ~rets[i].ok THEN Raise(FirstError(rets))
    ELSE Return(SetColumn(df, name, [i \in DOMAIN rets |-> PyList(rets[i].val)]))

(* line 66 *)
add_favorable(df) ==
    Assign(df, FavorableCol,
        [i \in DOMAIN df.rows |-> generate_prognostic_data(SeriesOf(df, i), favorable)])

(* line 67, reached when line 66 returned *)
add_unfavorable(r) ==
    IF ~r.ok THEN r
    ELSE Assign(r.val, UnfavorableCol,
             [i \in DOMAIN r.val.rows |->
                 generate_prognostic_data(SeriesOf(r.val, i), unfavorable)])

(* line 68 *)
drop_missing_uniprot(r) ==
    IF ~r.ok THEN r ELSE Return(DropNa(r.val, UniprotCol))

(* line 69 *)
add_prioritized_class(r) ==
    IF ~r.ok THEN r
    ELSE Assign(r.val, PrioritizedCol,
             [i \in DOMAIN r.val.rows |->
                 prioritize_protein_class(
                     Get(SeriesOf(r.val, i), ProteinClassCol), None)])

(* lines 66-70 on the parsed table *)
derive_columns(raw) ==
    add_prioritized_class(drop_missing_uniprot(add_unfavorable(add_favorable(raw))))

(* ------------------------ the remote table ---------------------------- *)
ColLiverBis == <<"P", "-", "L">>
Layouts ==
    { <<>>, <<ColLiver>>, <<ColNoHyphen>>,
      <<ColLiver, ColBreast>>, <<ColLiver, ColLiverBis>> }
Identities ==
    { <<Str(<<"Q">>), Str(<<"T", ",", " ", "E">>)>>,
      <<NaN, Str(<<"T", ",", " ", "E">>)>>,
      <<Str(<<"Q">>), Str(<<"X">>)>>,
      <<Str(<<"Q">>), NaN>> }
CellChoices(h) ==
    IF Len(h) <= 1
    THEN [DOMAIN h -> {NaN, Str(unfavorable), Str(<<"f", " ", "u", "f">>)}]
    ELSE { <<Str(favorable), Str(unfavorable)>>,
           <<Str(unfavorable), Str(unfavorable)>> }
RowChoices(h) == {id \o c : id \in Identities, c \in CellChoices(h)}
Tables ==
    UNION { {DataFrame(<<UniprotCol, ProteinClassCol>> \o h, rows) :
                rows \in UNION {[1..n -> RowChoices(h)] : n \in 1..MaxRows}} :
            h \in Layouts }
FetchOutcomes == {None} \cup {Some(tb) : tb \in Tables}

(* a slip: a failed download gives an empty table instead of an error *)
load_data_swallowing(fetched) ==
    IF fetched.none THEN Return(DataFrame(<<UniprotCol, ProteinClassCol>>, <<>>))
    ELSE derive_columns(fetched.v)

(* the body of load_data; fetched is what pd.read_csv gave: None when the  *)
(* download, the unzip or the parse failed (read_csv raises)               *)
load_data_body(fetched) ==
    IF fetched.none THEN Raise("FetchError")
    ELSE derive_columns(fetched.v)

(* a slip: the decorator is missing, every call runs the body *)
uncached(store) ==
    {[ret |-> load_data_body(o), store |-> store, fetched |-> TRUE, read |-> o] :
        o \in FetchOutcomes}

(* the body ran on what read_csv gave: its value is stored, an exception   *)
(* is not                                                                  *)
Stored(r, o) ==
    [ret |-> r, store |-> IF r.ok THEN Some(r.val) ELSE None,
     fetched |-> TRUE, read |-> o]

(* @st.cache_data: the possible outcomes of a call.  A stored value is     *)
(* returned without running the body; else the body runs, on whatever      *)
(* pd.read_csv gives at that moment                                        *)
cache_data(store) ==
    IF ~store.none
    THEN {[ret |-> Return(store.v), store |-> store, fetched |-> FALSE, read |-> None]}
    ELSE {Stored(load_data_body(o), o) : o \in FetchOutcomes}

(* --------------------------------- main -------------------------------- *)
(* a slip: the views are rendered before the cancer selection is published *)
next_pc_views_early(p) ==
    CASE p = "load" -> "publish"
      [] p = "publish" -> "protein"
      [] p = "protein" -> "view1"
      [] p = "view1" -> "view2"
      [] p = "view2" -> "view3"
      [] p = "view3" -> "cancer"
      [] p = "cancer" -> "done"
      [] OTHER -> p

(* the statement order of main *)
next_pc(p) ==
    CASE p = "load" -> "publish"
      [] p = "publish" -> "protein"
      [] p = "protein" -> "cancer"
      [] p = "cancer" -> "view1"
      [] p = "view1" -> "view2"
      [] p = "view2" -> "view3"
      [] p = "view3" -> "done"
      [] OTHER -> p

(* str.split(sep) for a separator of several characters *)
RECURSIVE SplitOn(_, _)
SplitOn(s, sep) ==
    LET hits == {i \in 1..(Len(s) - Len(sep) + 1) :
                    SubSeq(s, i, i + Len(sep) - 1) = sep}
    IN  IF hits = {} THEN <<s>>
        ELSE LET i == CHOOSE k \in hits : \A j \in hits : k <= j
             IN  <<SubSeq(s, 1, i - 1)>>
                     \o SplitOn(SubSeq(s, i + Len(sep), Len(s)), sep)

(* lines 86-88: the set of the labels of every record *)
protein_class_options(df) ==
    LET classes == {Get(SeriesOf(df, i), ProteinClassCol) : i \in DOMAIN df.rows}
    IN  IF \E c \in classes : c.nan THEN Raise("AttributeError")
        ELSE Return(UNION {Range(SplitOn(c.s, <<",", " ">>)) : c \in classes})

(* lines 93-94 *)
cancer_type_options(df) ==
    LET cols == SelectSeq(df.columns, LAMBDA x : Contains(x, "P"))
        types == [i \in DOMAIN cols |-> cancer_type_of(cols[i])]
    IN  IF \E i \in DOMAIN types : ~types[i].ok THEN Raise("IndexError")
        ELSE Return([i \in DOMAIN types |-> types[i].val])

InitMain == ClassIdle /\ ProgIdle /\ MainIdle

(* the script starts, or Streamlit reruns it; lines 75-80 *)
main_start ==
    /\ pc \in {"idle", "done", "raised"}
    /\ ~cache.none \/ fetches < MaxFetches
    /\ pc' = "load"
    /\ data' = <<>>
    /\ err' = ""
    /\ view_log' = <<>>
    /\ run_fetches' = 0
    /\ run_published' = {}
    /\ source' = None
    /\ UNCHANGED <<cache, session_state, fetches, first_ret, last_ret,
                   class_vars, prog_vars>>

(* line 82: data = load_data() *)
load_data ==
    /\ pc = "load"
    /\ \E c \in cache_data(cache) :
          LET n == IF c.fetched THEN 1 ELSE 0
          IN  /\ cache' = c.store
              /\ last_ret' = c.ret
              /\ first_ret' = IF first_ret = NotCalled THEN c.ret ELSE first_ret
              /\ fetches' = fetches + n
              /\ run_fetches' = run_fetches + n
              /\ source' = IF c.fetched THEN c.read ELSE source
              /\ pc' = IF c.ret.ok THEN next_pc(pc) ELSE "raised"
              /\ err' = IF c.ret.ok THEN err ELSE c.ret.err
              /\ data' = IF c.ret.ok THEN c.ret.val ELSE data
    /\ UNCHANGED <<session_state, view_log, run_published, class_vars, prog_vars>>

(* lines 83-84 *)
publish_data ==
    /\ pc = "publish"
    /\ session_state' = [session_state EXCEPT !.unfiltered_data = Some(data),
                                              !.data = Some(data)]
    /\ run_published' = run_published \cup {"unfiltered_data", "data"}
    /\ pc' = next_pc(pc)
    /\ UNCHANGED <<cache, data, err, view_log, source, fetches, run_fetches,
                   first_ret, last_ret, class_vars, prog_vars>>

(* lines 86-92; st.multiselect raises StreamlitAPIException when a default *)
(* is not among the options, else returns what the user has selected       *)
select_protein ==
    /\ pc = "protein"
    /\ \E options \in {protein_class_options(data)} :
           IF ~options.ok \/ <<"E">> \notin options.val
           THEN /\ pc' = "raised"
                /\ err' = IF options.ok THEN "StreamlitAPIException" ELSE options.err
                /\ UNCHANGED <<session_state, run_published>>
           ELSE /\ \E selection \in {{<<"E">>}, options.val} :
                      session_state' =
                          [session_state EXCEPT !.protein_selection = Some(selection)]
                /\ run_published' = run_published \cup {"protein_selection"}
                /\ pc' = next_pc(pc)
                /\ err' = err
    /\ UNCHANGED <<cache, data, view_log, source, fetches, run_fetches,
                   first_ret, last_ret, class_vars, prog_vars>>

(* lines 93-96; st.selectbox returns None when there is no option, else    *)
(* the option the user has selected                                        *)
select_cancer ==
    /\ pc = "cancer"
    /\ \E options \in {cancer_type_options(data)} :
           IF ~options.ok
           THEN /\ pc' = "raised"
                /\ err' = options.err
                /\ UNCHANGED <<session_state, run_published>>
           ELSE /\ \E selection \in
                        IF options.val = <<>> THEN {None}
                        ELSE {Some(o) : o \in Range(options.val)} :
                      session_state' =
                          [session_state EXCEPT !.cancer_selection = Some(selection)]
                /\ run_published' = run_published \cup {"cancer_selection"}
                /\ pc' = next_pc(pc)
                /\ err' = err
    /\ UNCHANGED <<cache, data, view_log, source, fetches, run_fetches,
                   first_ret, last_ret, class_vars, prog_vars>>

(* a view collaborator is called; it reads the session state as it is now. *)
(* lines 103-104                                                           *)
generate_cancer_view ==
    /\ pc = "view1"
    /\ view_log' = Append(view_log, [view |-> "cancer", saw |-> session_state])
    /\ pc' = next_pc(pc)
    /\ UNCHANGED <<cache, session_state, data, err, source, fetches, run_fetches,
                   run_published, first_ret, last_ret, class_vars, prog_vars>>

(* lines 106-107 *)
generate_chromosome_view ==
    /\ pc = "view2"
    /\ view_log' = Append(view_log, [view |-> "chromosome", saw |-> session_state])
    /\ pc' = next_pc(pc)
    /\ UNCHANGED <<cache, session_state, data, err, source, fetches, run_fetches,
                   run_published, first_ret, last_ret, class_vars, prog_vars>>

(* lines 109-110 *)
generate_protein_view ==
    /\ pc = "view3"
    /\ view_log' = Append(view_log, [view |-> "protein", saw |-> session_state])
    /\ pc' = next_pc(pc)
    /\ UNCHANGED <<cache, session_state, data, err, source, fetches, run_fetches,
                   run_published, first_ret, last_ret, class_vars, prog_vars>>

Next ==
    \/ main_start
    \/ load_data
    \/ publish_data
    \/ select_protein
    \/ select_cancer
    \/ generate_cancer_view
    \/ generate_chromosome_view
    \/ generate_protein_view

Spec == InitMain /\ [][Next]_vars

(* --------------------- claims on load_data and main ------------------- *)
(* C6: after a first load_data call that returned, the remote table has    *)
(* been fetched exactly once however many calls followed, and the latest   *)
(* call returned the value the first call returned (the stored one).       *)
C6_LoadedOnce ==
    first_ret.ok =>
        /\ fetches = 1
        /\ last_ret = first_ret
        /\ cache = Some(first_ret.val)

(* a later run's load_data call has returned without fetching *)
C6_Witness ==
    /\ first_ret.ok
    /\ pc = "publish"
    /\ run_fetches = 0
    /\ last_ret = first_ret

ReadFailed == pc \notin {"idle", "load"} /\ run_fetches >= 1 /\ source.none
ReadGave == pc \notin {"idle", "load"} /\ run_fetches >= 1 /\ ~source.none

(* the three derived values of one source row, from that row alone *)
DerivedOf(r) ==
    << PyList(generate_prognostic_data(r, favorable).val),
       PyList(generate_prognostic_data(r, unfavorable).val),
       PyList(prioritize_protein_class(Get(r, ProteinClassCol), None).val) >>
ExpectedLoad(raw) ==
    LET present == {i \in DOMAIN raw.rows : ~Get(SeriesOf(raw, i), UniprotCol).nan}
    IN  DataFrame(raw.columns \o <<FavorableCol, UnfavorableCol, PrioritizedCol>>,
            [k \in 1..Cardinality(present) |->
                raw.rows[KthOf(present, k)]
                    \o DerivedOf(SeriesOf(raw, KthOf(present, k)))])
HyphenInEveryPathologyName(df) ==
    \A j \in DOMAIN df.columns :
        IsPathology(df.columns[j]) => Hyphens(df.columns[j]) # {}

(* C7: for every parsed table (here: even only those whose pathology       *)
(* column names all hold a "-"), whatever its records hold, load_data      *)
(* returns, and returns the records whose Uniprot is present, in source    *)
(* order, each with the three columns derived from its own fields.         *)
C7_LoadCompletes ==
    (ReadGave /\ HyphenInEveryPathologyName(source.v)) =>
        /\ last_ret.ok
        /\ last_ret.val = ExpectedLoad(source.v)

(* where load_data returns, C7's description of the result is right *)
LoadedAsDescribed ==
    (ReadGave /\ last_ret.ok) => last_ret.val = ExpectedLoad(source.v)

(* C8: when read_csv fails, the call raises after that one fetch, nothing  *)
(* is stored in the cache, main stops at line 82: no session-state key is  *)
(* written and no view is rendered in that run.                            *)
C8_FetchFailureIsFatal ==
    ReadFailed =>
        /\ pc = "raised"
        /\ err = "FetchError"
        /\ last_ret = Raise("FetchError")
        /\ run_fetches = 1
        /\ cache = None
        /\ run_published = {}
        /\ session_state.data.none /\ session_state.unfiltered_data.none
        /\ view_log = <<>>

(* a second run has failed at its fetch too: one fetch per call *)
C8_Witness ==
    /\ ReadFailed
    /\ pc = "raised"
    /\ fetches = 2

(* the cancer types a summary lists: none for the empty summary *)
Listed(summary) == IF summary = <<>> THEN {} ELSE Range(Split(summary, ","))
ListedInBoth(r) ==
    Listed(Get(r, FavorableCol).s) \cap Listed(Get(r, UnfavorableCol).s)
LoadedRows ==
    IF cache.none THEN {}
    ELSE {SeriesOf(cache.v, i) : i \in DOMAIN cache.v.rows}
HoldsBoth(cell) == HasToken(cell, favorable) /\ HasToken(cell, unfavorable)
PathologyPositions(r) ==
    {j \in DOMAIN r : IsPathology(r[j].name) /\ Hyphens(r[j].name) # {}}

(* C9 as stated: no loaded record lists a cancer type in both summaries,   *)
(* whatever its pathology cells hold.                                      *)
C9_NeverInBoth ==
    \A r \in LoadedRows : ListedInBoth(r) = {}

(* C9 amended: a loaded record lists no cancer type in both summaries      *)
(* provided none of its pathology cells holds both polarity words and no   *)
(* two of its pathology columns yield the same cancer-type name.           *)
C9_DisjointUnlessCellHoldsBoth ==
    \A r \in LoadedRows :
        ( /\ \A j \in PathologyPositions(r) : ~HoldsBoth(r[j].value)
          /\ \A j, k \in PathologyPositions(r) :
                j # k => RemainderType(r[j].name) # RemainderType(r[k].name) )
        => ListedInBoth(r) = {}

(* a loaded record with one cancer type in each summary *)
C9_Witness ==
    \E r \in LoadedRows :
        /\ \A j \in PathologyPositions(r) : ~HoldsBoth(r[j].value)
        /\ Get(r, FavorableCol).s = <<"L">>
        /\ Get(r, UnfavorableCol).s = <<"B">>

ViewOrder == <<"cancer", "chromosome", "protein">>
PublishedKeys ==
    {"unfiltered_data", "data", "protein_selection", "cancer_selection"}

(* C10: whenever a view has been called in a run, main had by then written *)
(* all four session-state keys in that run, the dataset keys holding the   *)
(* loaded table; the views are called in the order cancer, chromosome,     *)
(* protein, and all see the session state main left after line 96.         *)
C10_PublishedBeforeViews ==
    /\ Len(view_log) <= 3
    /\ \A k \in DOMAIN view_log :
          /\ view_log[k].view = ViewOrder[k]
          /\ PublishedKeys \subseteq run_published
          /\ ~view_log[k].saw.protein_selection.none
          /\ ~view_log[k].saw.cancer_selection.none
          /\ view_log[k].saw.data = Some(data)
          /\ view_log[k].saw.unfiltered_data = Some(data)
          /\ view_log[k].saw = session_state

(* a run has rendered its three views *)
C10_Witness ==
    /\ pc = "done"
    /\ Len(view_log) = 3

====
